---- MODULE Spec2Model ----
(***************************************************************************)
(* A model of src/src/helpers/ethSigUtil.js: the EIP-712 typed-data        *)
(* helpers (TypedDataUtils), the signature codec (concatSig, fromRpcSig)   *)
(* and the signing / recovery entry points.                                *)
(*                                                                         *)
(* The library is a set of functions without shared state.  A call is      *)
(* modelled as: the arguments are chosen (Init), the function runs (one    *)
(* action per exported function) and its result, a value or the thrown     *)
(* error, is left in `out`.  findTypeDependencies is also given step by    *)
(* step, with its call stack, to reason about its termination.             *)
(***************************************************************************)
EXTENDS Integers, Sequences, FiniteSets, TLC

VARIABLES
    op,           \* the function that ran ("none" before the call)
    types,        \* the `types` argument: struct name -> sequence of fields
    primaryType,  \* the `primaryType` argument
    data,         \* the `data` argument of encodeData / hashStruct
    out,          \* what the call returned, or the error it threw
    results,      \* findTypeDependencies: the accumulator array (shared by all frames)
    stack,        \* findTypeDependencies: the call stack, innermost frame first
    expanded,     \* findTypeDependencies: how often each type name was expanded
    msgParams,    \* the `msgParams` argument of the signing / recovery entry points
    privateKey,   \* the `privateKey` argument of the signing entry points
    sigParams     \* the (v, r, s) handed to concatSig

vars == <<op, types, primaryType, data, out, results, stack, expanded,
          msgParams, privateKey, sigParams>>

\* the variables of the step-by-step findTypeDependencies
walk == <<results, stack, expanded>>

\* the variables of the signing entry points and of the signature codec
signing == <<msgParams, privateKey, sigParams>>

----------------------------------------------------------------------------
(* Results of a call: a returned value or a thrown error.                  *)

Ok(v) == [k |-> "ok", v |-> v]

Err(e) == [k |-> "err", e |-> e]

IsOk(r) == r.k = "ok"

IsErr(r) == r.k = "err"

NoCall == [k |-> "none"]

(* The errors the functions throw. *)
NoTypeDefinition == "No type definition specified"

ArraysUnimplemented == "Arrays currently unimplemented in encodeData"

ExpectNonEmptyArray == "Expect argument to be non-empty array"

TypeError == "TypeError"

LibraryError == "error thrown by ethereumjs-util / ethereumjs-abi"

----------------------------------------------------------------------------
(* Bounds of the model.                                                    *)

\* The most fields a schema declares, over all its structs, in the calls of
\* the type-graph functions.
MaxTotalFields == 3

\* The same, in the calls that also pass a struct instance.
MaxEncodeFields == 2

\* The same, in the step-by-step runs of findTypeDependencies.
MaxWalkFields == 3

\* The most entries of the list handed to typedSignatureHashBuffer.
MaxLegacyEntries == 2

----------------------------------------------------------------------------
(* Strings.  A type name is a JavaScript string; what the code does with   *)
(* one beyond comparing it for equality (the default Array.prototype.sort, *)
(* lastIndexOf, length) goes through its UTF-16 code units.                *)

StructNames == {"Asset", "Mail", "Person"}

CodeUnits(str) ==
    CASE str = "Asset"     -> <<65, 115, 115, 101, 116>>
      [] str = "Mail"      -> <<77, 97, 105, 108>>
      [] str = "Person"    -> <<80, 101, 114, 115, 111, 110>>
      [] str = "Foo"       -> <<70, 111, 111>>
      [] str = "string"    -> <<115, 116, 114, 105, 110, 103>>
      [] str = "bytes"     -> <<98, 121, 116, 101, 115>>
      [] str = "uint256"   -> <<117, 105, 110, 116, 50, 53, 54>>
      [] str = "uint256[]" -> <<117, 105, 110, 116, 50, 53, 54, 91, 93>>
      [] str = "Person[]"  -> <<80, 101, 114, 115, 111, 110, 91, 93>>
      [] str = "EIP712Domain" ->
             <<69, 73, 80, 55, 49, 50, 68, 111, 109, 97, 105, 110>>

RECURSIVE SeqLess(_, _)
\* a < b for two strings given by their code units (the order sort() uses)
SeqLess(a, b) ==
    IF a = <<>> THEN b # <<>>
    ELSE IF b = <<>> THEN FALSE
    ELSE IF a[1] # b[1] THEN a[1] < b[1]
    ELSE SeqLess(Tail(a), Tail(b))

StrLess(a, b) == SeqLess(CodeUnits(a), CodeUnits(b))

Includes(arr, x) == \E i \in 1..Len(arr) : arr[i] = x

RECURSIVE Filter(_, _)
\* Array.prototype.filter(dep => dep !== x)
Filter(arr, x) ==
    IF arr = <<>> THEN <<>>
    ELSE IF Head(arr) # x THEN <<Head(arr)>> \o Filter(Tail(arr), x)
    ELSE Filter(Tail(arr), x)

RECURSIVE InsertSorted(_, _)
InsertSorted(sorted, x) ==
    IF sorted = <<>> THEN <<x>>
    ELSE IF StrLess(x, Head(sorted)) THEN <<x>> \o sorted
    ELSE <<Head(sorted)>> \o InsertSorted(Tail(sorted), x)

\* a sort() that forgot to sort
SortUnordered(arr) == arr

RECURSIVE Sort(_)
\* Array.prototype.sort() without a comparator: ascending by code units
Sort(arr) ==
    IF arr = <<>> THEN <<>>
    ELSE InsertSorted(Sort(Tail(arr)), Head(arr))

----------------------------------------------------------------------------
(* TypedDataUtils: the type graph.                                         *)

\* types[name] !== undefined
Defined(schema, name) == name \in DOMAIN schema

RECURSIVE PushAll(_, _, _)
\* the inner loop without its includes() test
PushAll(deps, i, res) ==
    IF i > Len(deps) THEN res
    ELSE PushAll(deps, i + 1, Append(res, deps[i]))

RECURSIVE PushMissing(_, _, _)
\* for (const dep of deps) { !results.includes(dep) && results.push(dep) }
\* from index i on; deps is the array the recursive call returned
PushMissing(deps, i, res) ==
    IF i > Len(deps) THEN res
    ELSE PushMissing(deps, i + 1,
                     IF Includes(res, deps[i]) THEN res ELSE Append(res, deps[i]))

RECURSIVE findTypeDependencies(_, _, _)
RECURSIVE forEachField(_, _, _, _)

\* the loop over types[primaryType] of findTypeDependencies, from field i on
forEachField(fields, i, schema, res) ==
    IF i > Len(fields) THEN res
    ELSE LET returned == findTypeDependencies(fields[i].type, schema, res)
         IN  \* the call returns the accumulator itself: the inner loop walks
             \* the array it pushes to
             forEachField(fields, i + 1, schema, PushMissing(returned, 1, returned))

\* the first test without its includes() half
ReturnsAtOnceUnlessNew(res, root, schema) == ~Defined(schema, root)

\* results.includes(primaryType) || types[primaryType] === undefined
ReturnsAtOnce(res, root, schema) == Includes(res, root) \/ ~Defined(schema, root)

findTypeDependencies(root, schema, res) ==
    IF ReturnsAtOnce(res, root, schema) THEN res
    ELSE forEachField(schema[root], 1, schema, Append(res, root))

\* `${type} ${name}` joined by ",": the string as a sequence of tokens
RECURSIVE Members(_, _)
Members(fields, i) ==
    IF i > Len(fields) THEN <<>>
    ELSE (IF i > 1 THEN <<",">> ELSE <<>>)
         \o <<fields[i].type, " ", fields[i].name>>
         \o Members(fields, i + 1)

\* `${type}(${...})`
Segment(name, schema) == <<name, "(">> \o Members(schema[name], 1) \o <<")">>

RECURSIVE encodeTypeLoop(_, _, _, _)

\* the loop passing over a type without a definition instead of throwing
encodeTypeLoopSkipping(deps, i, schema, result) ==
    IF i > Len(deps) THEN Ok(result)
    ELSE IF ~Defined(schema, deps[i])
         THEN encodeTypeLoop(deps, i + 1, schema, result)
         ELSE encodeTypeLoop(deps, i + 1, schema, result \o Segment(deps[i], schema))

\* for (const type of deps) { ... } from index i on, result accumulated so far
encodeTypeLoop(deps, i, schema, result) ==
    IF i > Len(deps) THEN Ok(result)
    ELSE IF ~Defined(schema, deps[i])
         THEN Err(NoTypeDefinition)
         ELSE encodeTypeLoop(deps, i + 1, schema, result \o Segment(deps[i], schema))

encodeType(root, schema) ==
    LET found == Filter(findTypeDependencies(root, schema, <<>>), root)
        deps  == <<root>> \o Sort(found)
    IN  encodeTypeLoop(deps, 1, schema, <<>>)

\* ethUtil.sha3: Keccak-256, an injective function of its input
sha3(x) == [keccak256 |-> x]

\* ethUtil.sha3 of what a call returned; the error if the call threw
sha3Of(encoded) == IF IsErr(encoded) THEN encoded ELSE Ok(sha3(encoded.v))

hashType(root, schema) == sha3Of(encodeType(root, schema))

----------------------------------------------------------------------------
(* TypedDataUtils: struct encoding.                                        *)
(* A JavaScript value is undefined, a scalar (a string or a number) or an  *)
(* object with some properties.                                            *)

Undefined == [kind |-> "undefined"]

Scalar(v) == [kind |-> "scalar", v |-> v]

Object(props) == [kind |-> "object", props |-> props]

\* value[name]; reading a property of undefined throws (see PropertyThrows),
\* a scalar has none of the field names as a property
Property(value, name) ==
    IF value.kind = "object" /\ name \in DOMAIN value.props
    THEN value.props[name]
    ELSE Undefined

PropertyThrows(value) == value.kind = "undefined"

\* ethUtil.sha3(value): toBuffer accepts strings and numbers and throws
\* 'invalid type' on a plain object
sha3Value(value) ==
    IF value.kind = "scalar" THEN Ok(sha3(value)) ELSE Err(LibraryError)

\* the types ethAbi.rawEncode takes one 32-byte word for
ElementaryType(t) == t \in {"uint256", "bytes32", "address", "bool"}

LastIndexOfBracket(t) ==
    LET cu == CodeUnits(t)
        at == {i \in 1..Len(cu) : cu[i] = 93}
    IN  IF at = {} THEN -1 ELSE (CHOOSE i \in at : \A j \in at : j <= i) - 1

\* the test with the index compared to length instead of length - 1
EndsInBracketOffByOne(t) == LastIndexOfBracket(t) = Len(CodeUnits(t))

\* field.type.lastIndexOf("]") === field.type.length - 1
EndsInBracket(t) == LastIndexOfBracket(t) = Len(CodeUnits(t)) - 1

\* ethAbi.rawEncode(encodedTypes, encodedValues): one 32-byte word per entry;
\* it throws on a type it does not know and on a value it cannot convert
rawEncode(encodedTypes, encodedValues) ==
    IF \E i \in 1..Len(encodedTypes) :
          \/ ~ElementaryType(encodedTypes[i])
          \/ /\ "kind" \in DOMAIN encodedValues[i]
             /\ encodedValues[i].kind # "scalar"
    THEN Err(LibraryError)
    ELSE Ok([i \in 1..Len(encodedTypes) |->
                [type |-> encodedTypes[i], value |-> encodedValues[i]]])

\* a field test that lets a missing field through
FieldAlwaysPresent(value) == TRUE

\* value !== undefined
FieldPresent(value) == value # Undefined

RECURSIVE encodeData(_, _, _)
RECURSIVE encodeDataLoop(_, _, _, _, _, _)

\* for (const field of types[primaryType]) { ... } from field i on, then
\* the return statement
encodeDataLoop(fields, i, value, schema, encodedTypes, encodedValues) ==
    IF i > Len(fields) THEN rawEncode(encodedTypes, encodedValues)
    ELSE IF PropertyThrows(value) THEN Err(TypeError)
    ELSE
      LET field == fields[i]
          v     == Property(value, field.name)
      IN  IF ~FieldPresent(v)
          THEN encodeDataLoop(fields, i + 1, value, schema, encodedTypes, encodedValues)
          ELSE IF field.type = "string" \/ field.type = "bytes"
          THEN LET h == sha3Value(v)
               IN  IF IsErr(h) THEN h
                   ELSE encodeDataLoop(fields, i + 1, value, schema,
                                       Append(encodedTypes, "bytes32"),
                                       Append(encodedValues, h.v))
          ELSE IF Defined(schema, field.type)
          THEN LET nested == encodeData(field.type, v, schema)
               IN  IF IsErr(nested) THEN nested
                   ELSE encodeDataLoop(fields, i + 1, value, schema,
                                       Append(encodedTypes, "bytes32"),
                                       Append(encodedValues, sha3(nested.v)))
          ELSE IF EndsInBracket(field.type)
          THEN Err(ArraysUnimplemented)
          ELSE encodeDataLoop(fields, i + 1, value, schema,
                              Append(encodedTypes, field.type),
                              Append(encodedValues, v))

encodeData(root, value, schema) ==
    LET th == hashType(root, schema)
    IN  IF IsErr(th) THEN th
        ELSE encodeDataLoop(schema[root], 1, value, schema, <<"bytes32">>, <<th.v>>)

hashStruct(root, value, schema) == sha3Of(encodeData(root, value, schema))

----------------------------------------------------------------------------
(* The schemas, roots and instances the calls are checked on.              *)

FieldNames == <<"a", "b", "c", "d", "e", "f", "g", "h">>

GraphFieldTypes == StructNames \cup {"uint256", "Foo"}

EncodeFieldTypes == {"Person", "string", "uint256", "uint256[]", "Foo"}

RootNames == StructNames \cup {"Foo"}

\* the field lists with n fields, their types out of T
FieldLists(n, T) ==
    {[i \in 1..n |-> [name |-> FieldNames[i], type |-> f[i]]] : f \in [1..n -> T]}

Count(c, s) == IF c[s] > 0 THEN c[s] ELSE 0

\* how many fields each struct declares; -1: the struct has no entry
Shapes(total) ==
    {c \in [StructNames -> -1..total] :
        Count(c, "Asset") + Count(c, "Mail") + Count(c, "Person") <= total}

SchemasOfShape(c, T) ==
    {[n \in {s \in StructNames : c[s] >= 0} |->
        CASE n = "Asset" -> fa [] n = "Mail" -> fm [] n = "Person" -> fp] :
     fa \in FieldLists(Count(c, "Asset"), T),
     fm \in FieldLists(Count(c, "Mail"), T),
     fp \in FieldLists(Count(c, "Person"), T)}

GraphSchemas ==
    UNION {SchemasOfShape(c, GraphFieldTypes) : c \in Shapes(MaxTotalFields)}

EncodeSchemas ==
    UNION {SchemasOfShape(c, EncodeFieldTypes) :
           c \in {d \in Shapes(MaxEncodeFields) : d["Asset"] = -1}}

PropNames == {"a", "b"}

MkObject(va, vb) ==
    Object([n \in {x \in PropNames : (IF x = "a" THEN va ELSE vb) # Undefined} |->
               IF n = "a" THEN va ELSE vb])

\* the values of property p: absent, a scalar or an object of scalars
ValuesAt(p) ==
    {Undefined, Scalar(<<p>>)}
    \cup {Object([n \in D |-> Scalar(<<p, n>>)]) : D \in SUBSET PropNames}

Instances == {MkObject(va, vb) : va \in ValuesAt("a"), vb \in ValuesAt("b")}

----------------------------------------------------------------------------
(* Calls of the TypedDataUtils functions.                                  *)

NoWalk ==
    /\ results = <<>>
    /\ stack = <<>>
    /\ expanded = <<>>

NoSigning ==
    /\ msgParams = Undefined
    /\ privateKey = Undefined
    /\ sigParams = Undefined

\* a call of a type-graph function: no instance is passed
InitGraph ==
    /\ types \in GraphSchemas
    /\ primaryType \in RootNames
    /\ data = Undefined

\* a call that passes an instance
InitEncode ==
    /\ types \in EncodeSchemas
    /\ primaryType \in {"Mail", "Person", "Foo"}
    /\ data \in Instances

Init ==
    /\ op = "none"
    /\ out = NoCall
    /\ InitGraph \/ InitEncode
    /\ NoWalk
    /\ NoSigning

Returns(name, value) ==
    /\ op = "none"
    /\ op' = name
    /\ out' = value
    /\ UNCHANGED <<types, primaryType, data, walk, signing>>

CallFindTypeDependencies ==
    Returns("findTypeDependencies", Ok(findTypeDependencies(primaryType, types, <<>>)))

CallEncodeType == Returns("encodeType", encodeType(primaryType, types))

CallHashType == Returns("hashType", hashType(primaryType, types))

CallEncodeData == Returns("encodeData", encodeData(primaryType, data, types))

CallHashStruct == Returns("hashStruct", hashStruct(primaryType, data, types))

Next ==
    \/ CallFindTypeDependencies
    \/ CallEncodeType
    \/ CallHashType
    \/ CallEncodeData
    \/ CallHashStruct

Spec == Init /\ [][Next]_vars

----------------------------------------------------------------------------
(* findTypeDependencies, step by step.  A frame of the call stack is the   *)
(* activation of one call: its primaryType, the index of the field its     *)
(* loop is at, and where it stands:                                        *)
(*   "entry"  before the first test                                        *)
(*   "loop"   at the head of the loop over types[primaryType]              *)
(*   "called" waiting for the recursive call on field i                    *)
(*   "merge"  the call returned; the inner loop over what it returned      *)
(* `results` is the one array every frame pushes to.                       *)

WalkFieldTypes == StructNames \cup {"uint256"}

WalkSchemas ==
    UNION {SchemasOfShape(c, WalkFieldTypes) : c \in Shapes(MaxWalkFields)}

Frame(t, i, at) == [primaryType |-> t, i |-> i, at |-> at]

InitWalk ==
    /\ op = "none"
    /\ out = NoCall
    /\ types \in WalkSchemas
    /\ primaryType \in WalkFieldTypes
    /\ data = Undefined
    /\ results = <<>>
    /\ stack = <<>>
    /\ expanded = [n \in WalkFieldTypes |-> 0]
    /\ NoSigning

\* findTypeDependencies(primaryType, types) is called
WalkStart ==
    /\ op = "none"
    /\ op' = "findTypeDependencies:running"
    /\ stack' = <<Frame(primaryType, 1, "entry")>>
    /\ UNCHANGED <<types, primaryType, data, out, results, expanded, signing>>

\* the frame on top returns: its caller goes on with its inner loop, and the
\* outermost call hands `results` to the caller of the function
Return ==
    /\ stack' = IF Len(stack) = 1 THEN <<>>
                ELSE <<[stack[2] EXCEPT !.at = "merge"]>> \o SubSeq(stack, 3, Len(stack))
    /\ op' = IF Len(stack) = 1 THEN "findTypeDependencies" ELSE op
    /\ out' = IF Len(stack) = 1 THEN Ok(results') ELSE out

\* the first test; a new struct type is pushed and expanded
WalkEnter ==
    /\ stack # <<>>
    /\ stack[1].at = "entry"
    /\ IF ReturnsAtOnce(results, stack[1].primaryType, types)
       THEN /\ results' = results
            /\ expanded' = expanded
            /\ Return
       ELSE /\ results' = Append(results, stack[1].primaryType)
            /\ expanded' = [expanded EXCEPT ![stack[1].primaryType] = @ + 1]
            /\ stack' = <<[stack[1] EXCEPT !.at = "loop"]>> \o Tail(stack)
            /\ UNCHANGED <<op, out>>
    /\ UNCHANGED <<types, primaryType, data, signing>>

\* the loop calls findTypeDependencies on the type of field i
WalkCall ==
    /\ stack # <<>>
    /\ stack[1].at = "loop"
    /\ stack[1].i <= Len(types[stack[1].primaryType])
    /\ stack' = <<Frame(types[stack[1].primaryType][stack[1].i].type, 1, "entry"),
                  [stack[1] EXCEPT !.at = "called"]>> \o Tail(stack)
    /\ UNCHANGED <<op, types, primaryType, data, out, results, expanded, signing>>

\* the inner loop over the array the call returned, which is `results`
WalkMerge ==
    /\ stack # <<>>
    /\ stack[1].at = "merge"
    /\ results' = PushMissing(results, 1, results)
    /\ stack' = <<[stack[1] EXCEPT !.at = "loop", !.i = @ + 1]>> \o Tail(stack)
    /\ UNCHANGED <<op, types, primaryType, data, out, expanded, signing>>

\* the loop is over: return results
WalkReturn ==
    /\ stack # <<>>
    /\ stack[1].at = "loop"
    /\ stack[1].i > Len(types[stack[1].primaryType])
    /\ results' = results
    /\ Return
    /\ UNCHANGED <<types, primaryType, data, expanded, signing>>

NextWalk ==
    \/ WalkStart
    \/ WalkEnter
    \/ WalkCall
    \/ WalkMerge
    \/ WalkReturn

SpecWalk == InitWalk /\ [][NextWalk]_vars

\* a call runs to its end: no step of it waits for anything
FairSpecWalk == SpecWalk /\ WF_vars(NextWalk)

----------------------------------------------------------------------------
(* The signature codec.  A Buffer is a sequence of bytes, a hex string a   *)
(* sequence of characters, a BN (big number) a sign and a magnitude, the   *)
(* magnitude in big-endian bytes without leading zeros.                    *)

HexDigits == <<"0", "1", "2", "3", "4", "5", "6", "7",
               "8", "9", "a", "b", "c", "d", "e", "f">>

HexValue(c) == (CHOOSE i \in 1..16 : HexDigits[i] = c) - 1

RECURSIVE StripZeroBytes(_)
StripZeroBytes(buf) ==
    IF buf = <<>> THEN <<>>
    ELSE IF Head(buf) = 0 THEN StripZeroBytes(Tail(buf))
    ELSE buf

\* the magnitude on 32 bytes (256 bits)
To256Bits(mag) == [i \in 1..(32 - Len(mag)) |-> 0] \o mag

\* BN.notn(256)
Not256(buf) == [i \in 1..Len(buf) |-> 255 - buf[i]]

\* BN.iaddn(1) on 256 bits: the carry runs through the trailing 255s
AddOne(buf) ==
    LET low == {i \in 1..Len(buf) : buf[i] < 255}
        k   == IF low = {} THEN 0 ELSE CHOOSE i \in low : \A j \in low : j <= i
    IN  [i \in 1..Len(buf) |->
            IF i < k THEN buf[i] ELSE IF i = k THEN buf[i] + 1 ELSE 0]

\* new BN(buffer)
BN(buf) == [negative |-> FALSE, mag |-> StripZeroBytes(buf)]

\* BN.testn(255)
TopBitSet(n) == Len(n.mag) = 32 /\ n.mag[1] >= 128

\* ethUtil.fromSigned(buffer): new BN(buffer).fromTwos(256)
fromSigned(buf) ==
    LET n == BN(buf)
    IN  IF TopBitSet(n)
        THEN [negative |-> TRUE,
              mag |-> StripZeroBytes(AddOne(Not256(To256Bits(n.mag))))]
        ELSE n

\* ethUtil.toUnsigned(bn): Buffer.from(bn.toTwos(256).toArray()); toArray gives
\* the magnitude, and one zero byte for zero
toUnsigned(n) ==
    LET twos == IF n.negative
                THEN StripZeroBytes(AddOne(Not256(To256Bits(n.mag))))
                ELSE n.mag
    IN  IF twos = <<>> THEN <<0>> ELSE twos

RECURSIVE BufferToString(_)
\* Buffer.toString("hex"): two characters a byte
BufferToString(buf) ==
    IF buf = <<>> THEN <<>>
    ELSE <<HexDigits[(Head(buf) \div 16) + 1], HexDigits[(Head(buf) % 16) + 1]>>
         \o BufferToString(Tail(buf))

RECURSIVE NumberToString16(_)
\* Number.toString(16): no leading zero
NumberToString16(n) ==
    IF n < 16 THEN <<HexDigits[n + 1]>>
    ELSE Append(NumberToString16(n \div 16), HexDigits[(n % 16) + 1])

\* ethUtil.intToBuffer(i): Buffer.from(padToEven(i.toString(16)), "hex"),
\* byte by byte
RECURSIVE intToBuffer(_)
intToBuffer(n) ==
    IF n < 256 THEN <<n>> ELSE Append(intToBuffer(n \div 256), n % 256)

RECURSIVE BufferValueTo(_, _)
\* the number the first k bytes of buf stand for
BufferValueTo(buf, k) ==
    IF k = 0 THEN 0 ELSE BufferValueTo(buf, k - 1) * 256 + buf[k]

\* ethUtil.bufferToInt(v) of a number v: new BN(toBuffer(v)).toNumber()
bufferToInt(v) == BufferValueTo(intToBuffer(v), Len(intToBuffer(v)))

\* a padWithZeroes that pads nothing
padWithZeroesNot(number, length) == number

RECURSIVE padWithZeroes(_, _)
padWithZeroes(number, length) ==
    IF Len(number) < length THEN padWithZeroes(<<"0">> \o number, length)
    ELSE number

IsHexPrefixed(str) == Len(str) >= 2 /\ str[1] = "0" /\ str[2] = "x"

\* ethUtil.stripHexPrefix
stripHexPrefix(str) == IF IsHexPrefixed(str) THEN SubSeq(str, 3, Len(str)) ELSE str

\* ethUtil.addHexPrefix
addHexPrefix(str) == IF IsHexPrefixed(str) THEN str ELSE <<"0", "x">> \o str

concatSig(v, r, s) ==
    LET rSig == fromSigned(r)
        sSig == fromSigned(s)
        vSig == bufferToInt(v)
        rStr == padWithZeroes(BufferToString(toUnsigned(rSig)), 64)
        sStr == padWithZeroes(BufferToString(toUnsigned(sSig)), 64)
        vStr == stripHexPrefix(<<"0", "x">> \o NumberToString16(vSig))
    IN  addHexPrefix(rStr \o sStr \o vStr)

\* Buffer.from(str, "hex") of a string of an even number of hex characters
HexToBuffer(str) ==
    [i \in 1..(Len(str) \div 2) |->
        HexValue(str[2 * i - 1]) * 16 + HexValue(str[2 * i])]

\* ethUtil.toBuffer of a 0x-prefixed hex string:
\* Buffer.from(padToEven(stripHexPrefix(str)), "hex")
toBuffer(str) ==
    LET digits == stripHexPrefix(str)
    IN  HexToBuffer(IF Len(digits) % 2 = 1 THEN <<"0">> \o digits ELSE digits)

\* ethUtil.fromRpcSig: 65 bytes, r then s then v; a v below 27 is lifted by 27
fromRpcSig(sig) ==
    LET signature == toBuffer(sig)
    IN  IF Len(signature) # 65 THEN Err(LibraryError)
        ELSE Ok([v |-> IF signature[65] < 27 THEN signature[65] + 27 ELSE signature[65],
                 r |-> SubSeq(signature, 1, 32),
                 s |-> SubSeq(signature, 33, 64)])

(* The (v, r, s) the codec is checked on: 32-byte values with a chosen      *)
(* first byte, last byte and filling, so that zero, values with leading    *)
(* zero bytes and values with the top bit set are among them.              *)

Bytes32 ==
    {[i \in 1..32 |-> IF i = 1 THEN hi ELSE IF i = 32 THEN lo ELSE fill] :
        hi \in {0, 1, 127, 128, 255}, fill \in {0, 255}, lo \in {0, 1, 255}}

RecoveryIds == {0, 1, 27, 28}

InitSig ==
    /\ op = "none"
    /\ out = NoCall
    /\ sigParams \in [v : RecoveryIds, r : Bytes32, s : Bytes32]
    /\ types = <<>>
    /\ primaryType = "none"
    /\ data = Undefined
    /\ NoWalk
    /\ msgParams = Undefined
    /\ privateKey = Undefined

CallConcatSig ==
    /\ op = "none"
    /\ op' = "concatSig"
    /\ out' = Ok(concatSig(sigParams.v, sigParams.r, sigParams.s))
    /\ UNCHANGED <<types, primaryType, data, walk, signing>>

\* fromRpcSig on the string concatSig returned
CallFromRpcSig ==
    /\ op = "concatSig"
    /\ op' = "fromRpcSig"
    /\ msgParams' = [sig |-> out.v]
    /\ out' = fromRpcSig(out.v)
    /\ UNCHANGED <<types, primaryType, data, walk, privateKey, sigParams>>

NextSig ==
    \/ CallConcatSig
    \/ CallFromRpcSig

SpecSig == InitSig /\ [][NextSig]_vars

----------------------------------------------------------------------------
(* Hashing a typed message (TypedDataUtils.sign) and the legacy hash.      *)
(* An object with named keys is a function on its keys: a key the object   *)
(* lacks reads as undefined.                                               *)

SchemaProperties == {"types", "primaryType", "domain", "message"}

\* data[key] as a condition: a missing key is undefined and "" is falsy;
\* the other values of this model (objects, non-empty strings) are truthy
Truthy(obj, key) ==
    /\ key \in DOMAIN obj
    /\ key = "primaryType" => obj[key] # ""

\* a sanitizeData that returns its argument
sanitizeDataKeepAll(typedData) == typedData

\* for (const key in TYPED_MESSAGE_SCHEMA.properties)
\*     data[key] && (sanitizedData[key] = data[key]);
sanitizeData(typedData) ==
    [key \in {k \in SchemaProperties : Truthy(typedData, k)} |-> typedData[key]]

\* obj[key], for a key whose value is an object
ObjectAt(obj, key) == IF key \in DOMAIN obj THEN obj[key] ELSE Undefined

\* ethUtil.sha3(Buffer.concat(parts)) of the parts 0x1901, first and second,
\* the two computed in this order
sha3OfParts(first, second) ==
    IF IsErr(first) THEN first
    ELSE IF IsErr(second) THEN second
    ELSE Ok(sha3(<<"1901", first.v, second.v>>))

\* TypedDataUtils.sign: the hash of the typed message
sign(typedData) ==
    LET sanitizedData == sanitizeData(typedData)
    IN  IF "types" \notin DOMAIN sanitizedData
        THEN Err(TypeError)  \* types[primaryType] of undefined
        ELSE
          LET schema == sanitizedData["types"]
              root   == IF "primaryType" \in DOMAIN sanitizedData
                        THEN sanitizedData["primaryType"] ELSE "undefined"
          IN  sha3OfParts(
                hashStruct("EIP712Domain", ObjectAt(sanitizedData, "domain"), schema),
                hashStruct(root, ObjectAt(sanitizedData, "message"), schema))

\* !e.name
LacksName(e) == "name" \notin DOMAIN e \/ e["name"] = ""

\* e.name in a string concatenation: a missing name reads "undefined"
NameInString(e) == IF "name" \in DOMAIN e THEN e["name"] ELSE "undefined"

\* ethUtil.toBuffer(e.value) throws 'invalid type' on a plain object
ConvertsToBuffer(value) == value.kind = "scalar"

\* ethAbi.soliditySHA3(types, values): Keccak-256 of the tight packing; the
\* packing throws on a value it cannot convert
soliditySHA3(argTypes, values) ==
    IF \E i \in 1..Len(values) : "kind" \in DOMAIN values[i] /\ values[i].kind # "scalar"
    THEN Err(LibraryError)
    ELSE Ok(sha3(<<"packed", argTypes, values>>))

\* a map() that builds `schema` and tests the name of the first entry alone
SchemaMapThrowsOnFirst(typedData) == LacksName(typedData[1])

\* the map() that builds `schema` throws
SchemaMapThrows(typedData) == \E i \in 1..Len(typedData) : LacksName(typedData[i])

typedSignatureHashBuffer(typedData) ==
    IF Len(typedData) = 0 THEN Err(ExpectNonEmptyArray)
    ELSE IF \E i \in 1..Len(typedData) :
               typedData[i]["type"] = "bytes" /\ ~ConvertsToBuffer(typedData[i]["value"])
    THEN Err(LibraryError)              \* thrown by the map() that builds `data`
    ELSE IF SchemaMapThrows(typedData)
    THEN Err(ExpectNonEmptyArray)
    ELSE
      LET values  == [i \in 1..Len(typedData) |-> typedData[i]["value"]]
          kinds   == [i \in 1..Len(typedData) |-> typedData[i]["type"]]
          schema  == [i \in 1..Len(typedData) |->
                        Scalar(<<typedData[i]["type"], " ", NameInString(typedData[i])>>)]
          strings == [i \in 1..Len(typedData) |-> "string"]
          first   == soliditySHA3(strings, schema)
          second  == soliditySHA3(kinds, values)
      IN  IF IsErr(first) THEN first
          ELSE IF IsErr(second) THEN second
          ELSE soliditySHA3(<<"bytes32", "bytes32">>, <<first.v, second.v>>)

\* ethUtil.hashPersonalMessage(ethUtil.toBuffer(data))
hashPersonalMessage(message) == sha3(<<"\\x19Ethereum Signed Message:\\n", message>>)

----------------------------------------------------------------------------
(* The payloads the signing entry points are checked on.                   *)

SignSchemas ==
    { [EIP712Domain |-> <<[name |-> "a", type |-> "string"]>>,
       Mail |-> <<[name |-> "a", type |-> "Person"], [name |-> "b", type |-> "string"]>>,
       Person |-> <<[name |-> "a", type |-> "string"]>>],
      [EIP712Domain |-> <<>>,
       Mail |-> <<[name |-> "a", type |-> "uint256"]>>],
      [Mail |-> <<[name |-> "a", type |-> "string"]>>] }

SignMessages ==
    { Object(<<>>),
      Object([a |-> Scalar(<<"a">>)]),
      Object([a |-> Scalar(<<"a">>), b |-> Scalar(<<"b">>)]),
      Object([a |-> Object([a |-> Scalar(<<"a", "a">>)]), b |-> Scalar(<<"b">>)]) }

\* the object with the keys of `keys`, out of the five values
TypedMessage(keys, schema, root, domain, message, extra) ==
    [k \in keys |->
        CASE k = "types" -> schema
          [] k = "primaryType" -> root
          [] k = "domain" -> domain
          [] k = "message" -> message
          [] k = "extra" -> extra]

TypedPayloads ==
    { TypedMessage((SchemaProperties \ lacking) \cup more, schema, root,
                   Object([a |-> Scalar(<<"domain">>)]), message, Scalar(<<"extra">>)) :
        lacking \in {{}} \cup {{k} : k \in SchemaProperties},
        more \in {{}, {"extra"}},
        schema \in SignSchemas,
        root \in {"Mail", "Person", ""},
        message \in SignMessages }

LegacyEntries ==
    { [k \in {"type", "value"} \cup named |->
          CASE k = "type" -> t [] k = "value" -> v [] k = "name" -> n] :
        named \in {{}, {"name"}},
        t \in {"string", "bytes"},
        v \in {Scalar(<<"value">>), Object(<<>>)},
        n \in {"", "n"} }

LegacyPayloads == UNION {[1..n -> LegacyEntries] : n \in 0..MaxLegacyEntries}

PersonalPayloads == {Scalar(<<"hello">>), Scalar(<<"world">>)}

InitHash ==
    /\ op = "none"
    /\ out = NoCall
    /\ \/ \E payload \in TypedPayloads : msgParams = [kind |-> "typed", data |-> payload]
       \/ \E payload \in LegacyPayloads : msgParams = [kind |-> "legacy", data |-> payload]
    /\ privateKey = Undefined
    /\ sigParams = Undefined
    /\ types = <<>>
    /\ primaryType = "none"
    /\ data = Undefined
    /\ NoWalk

\* a function of the payload alone
Hashes(kind, name, value) ==
    /\ op = "none"
    /\ msgParams.kind = kind
    /\ op' = name
    /\ out' = value
    /\ UNCHANGED <<types, primaryType, data, walk, signing>>

CallSanitizeData == Hashes("typed", "sanitizeData", Ok(sanitizeData(msgParams.data)))

CallSign == Hashes("typed", "TypedDataUtils.sign", sign(msgParams.data))

CallTypedSignatureHashBuffer ==
    Hashes("legacy", "typedSignatureHashBuffer", typedSignatureHashBuffer(msgParams.data))

NextHash ==
    \/ CallSanitizeData
    \/ CallSign
    \/ CallTypedSignatureHashBuffer

SpecHash == InitHash /\ [][NextHash]_vars

\* the hash the entry points of kind `kind` sign and recover with
MessageHash(kind, payload) ==
    CASE kind = "typed" -> sign(payload)
      [] kind = "legacy" -> typedSignatureHashBuffer(payload)
      [] kind = "personal" -> Ok(hashPersonalMessage(payload))

----------------------------------------------------------------------------
(* The external ECDSA primitive.  A signature is a function of the hash    *)
(* and the key, and ecrecover finds the public key of the key that signed  *)
(* the hash: recover(h, sign(h, k)) = publicKey(k).                        *)

PrivateKeys == {1, 2}

\* a hash no payload of the model has
ForeignHash == sha3(<<"foreign">>)

MailSchema ==
    [EIP712Domain |-> <<[name |-> "a", type |-> "string"]>>,
     Mail |-> <<[name |-> "a", type |-> "Person"], [name |-> "b", type |-> "string"]>>,
     Person |-> <<[name |-> "a", type |-> "string"]>>]

MailMessage(text) ==
    TypedMessage(SchemaProperties, MailSchema, "Mail",
                 Object([a |-> Scalar(<<"domain">>)]),
                 Object([a |-> Object([a |-> Scalar(<<"a", "a">>)]), b |-> Scalar(<<text>>)]),
                 Undefined)

LegacyEntry(name, value) ==
    [k \in {"type", "name", "value"} |->
        CASE k = "type" -> "string" [] k = "name" -> name [] k = "value" -> Scalar(<<value>>)]

\* the payloads handed to the signing and recovery entry points; the last
\* one of the typed and of the legacy ones has no hash (no types, no entry)
SignedPayloads(kind) ==
    CASE kind = "typed" ->
           {MailMessage("hello"), MailMessage("world"),
            TypedMessage(SchemaProperties \ {"types"}, MailSchema, "Mail",
                         Object(<<>>), Object(<<>>), Undefined)}
      [] kind = "legacy" ->
           {<<LegacyEntry("n", "hello")>>,
            <<LegacyEntry("n", "hello"), LegacyEntry("m", "world")>>,
            <<>>}
      [] kind = "personal" -> PersonalPayloads

\* the payloads above that have a hash
HashedPayloads ==
    <<[kind |-> "personal", data |-> Scalar(<<"hello">>)],
      [kind |-> "personal", data |-> Scalar(<<"world">>)],
      [kind |-> "typed", data |-> MailMessage("hello")],
      [kind |-> "typed", data |-> MailMessage("world")],
      [kind |-> "legacy", data |-> <<LegacyEntry("n", "hello")>>],
      [kind |-> "legacy",
       data |-> <<LegacyEntry("n", "hello"), LegacyEntry("m", "world")>>]>>

\* the number that stands for hash h in a signature: 0 for the foreign
\* hash, the place of its payload for the hash of a payload
DigestNo(h) ==
    IF h = ForeignHash THEN 0
    ELSE CHOOSE i \in 1..6 :
           MessageHash(HashedPayloads[i].kind, HashedPayloads[i].data) = Ok(h)

\* the 32-byte big-endian buffer of a number below 65536
Word(n) == [i \in 1..32 |-> IF i = 31 THEN n \div 256 ELSE IF i = 32 THEN n % 256 ELSE 0]

\* ethUtil.ecsign(msgHash, privateKey)
ecsign(msgHash, key) ==
    [v |-> 27 + (key % 2), r |-> Word(key), s |-> Word(DigestNo(msgHash))]

PublicKey(key) == [publicKey |-> key]

\* the key of `signers`, which holds one key at most, and 0 for none
SignerOrNone(signers) == IF signers = {} THEN 0 ELSE CHOOSE key \in signers : TRUE

\* ethUtil.ecrecover(hash, v, r, s): the key that signed, and some unrelated
\* key for a signature made over another hash
ecrecover(msgHash, v, r, s) ==
    PublicKey(SignerOrNone({key \in PrivateKeys :
                              ecsign(msgHash, key) = [v |-> v, r |-> r, s |-> s]}))

\* ethUtil.bufferToHex(ethUtil.publicToAddress(publicKey))
AddressOf(publicKey) == [address |-> publicKey.publicKey]

----------------------------------------------------------------------------
(* The signing and recovery entry points.                                  *)

\* `this` in the body of an arrow function at the top level of the module:
\* the `this` of the module, which is undefined in an ES module
ModuleThis == Undefined

\* ethUtil.bufferToHex(this.concatSig(sig.v, sig.r, sig.s))
SerializedSig(sig) ==
    IF ModuleThis = Undefined
    THEN Err(TypeError)      \* cannot read property 'concatSig' of undefined
    ELSE Ok(addHexPrefix(BufferToString(toBuffer(concatSig(sig.v, sig.r, sig.s)))))

\* the three signing entry points: hash, ecsign, serialize
SignWith(msgHash, key) ==
    IF IsErr(msgHash) THEN msgHash ELSE SerializedSig(ecsign(msgHash.v, key))

personalSign(key, params) ==
    SignWith(Ok(hashPersonalMessage(params.data)), key)

signTypedDataLegacy(key, params) ==
    SignWith(typedSignatureHashBuffer(params.data), key)

signTypedData(key, params) ==
    SignWith(sign(params.data), key)

recoverPublicKey(msgHash, sig) ==
    LET sigP == fromRpcSig(sig)
    IN  IF IsErr(sigP) THEN sigP
        ELSE Ok(ecrecover(msgHash, sigP.v.v, sigP.v.r, sigP.v.s))

\* the address of the public key a call returned; the error if it threw
SenderOf(publicKey) == IF IsErr(publicKey) THEN publicKey ELSE Ok(AddressOf(publicKey.v))

\* the three recovery entry points: hash, recoverPublicKey, address
RecoverWith(msgHash, sig) ==
    IF IsErr(msgHash) THEN msgHash ELSE SenderOf(recoverPublicKey(msgHash.v, sig))

recoverPersonalSignature(params) ==
    RecoverWith(Ok(hashPersonalMessage(params.data)), params.sig)

recoverTypedSignatureLegacy(params) ==
    RecoverWith(typedSignatureHashBuffer(params.data), params.sig)

recoverTypedSignature(params) ==
    RecoverWith(sign(params.data), params.sig)

\* the hash of the results that have one
HashOf(hashed) == {h.v : h \in {r \in hashed : IsOk(r)}}

\* what a signer that serializes (v, r, s) as concatSig does hands out
SignatureBy(msgHash, key) ==
    LET sig == ecsign(msgHash, key) IN concatSig(sig.v, sig.r, sig.s)

\* the signatures a caller passes to a recovery entry point: made over the
\* payload by either key, made over something else, or cut short
SignaturesOver(kind, payload) ==
    {<<"0", "x", "0", "0">>}
    \cup {SignatureBy(signed[1], signed[2]) :
            signed \in {<<ForeignHash, 1>>}
                       \cup (HashOf({MessageHash(kind, payload)}) \X PrivateKeys)}

InitSign ==
    /\ op = "none"
    /\ out = NoCall
    /\ \E kind \in {"typed", "legacy", "personal"} :
         \E payload \in SignedPayloads(kind) :
           \E sig \in SignaturesOver(kind, payload) :
             msgParams = [kind |-> kind, data |-> payload, sig |-> sig]
    /\ privateKey \in PrivateKeys
    /\ sigParams = Undefined
    /\ types = <<>>
    /\ primaryType = "none"
    /\ data = Undefined
    /\ NoWalk

\* a signing entry point
Signs(kind, name, value) ==
    /\ op = "none"
    /\ msgParams.kind = kind
    /\ op' = name
    /\ out' = value
    /\ UNCHANGED <<types, primaryType, data, walk, signing>>

CallPersonalSign == Signs("personal", "personalSign", personalSign(privateKey, msgParams))

CallSignTypedDataLegacy ==
    Signs("legacy", "signTypedDataLegacy", signTypedDataLegacy(privateKey, msgParams))

CallSignTypedData == Signs("typed", "signTypedData", signTypedData(privateKey, msgParams))

\* a recovery entry point, on the signature the caller holds or on the one
\* the signing entry point has just returned
Recovers(kind, signer, name, value) ==
    /\ msgParams.kind = kind
    /\ op = "none" \/ (op = signer /\ IsOk(out))
    /\ op' = name
    /\ msgParams' = IF op = signer THEN [msgParams EXCEPT !.sig = out.v] ELSE msgParams
    /\ out' = value
    /\ UNCHANGED <<types, primaryType, data, walk, privateKey, sigParams>>

CallRecoverPersonalSignature ==
    Recovers("personal", "personalSign", "recoverPersonalSignature",
             recoverPersonalSignature(msgParams'))

CallRecoverTypedSignatureLegacy ==
    Recovers("legacy", "signTypedDataLegacy", "recoverTypedSignatureLegacy",
             recoverTypedSignatureLegacy(msgParams'))

CallRecoverTypedSignature ==
    Recovers("typed", "signTypedData", "recoverTypedSignature",
             recoverTypedSignature(msgParams'))

NextSign ==
    \/ CallPersonalSign
    \/ CallSignTypedDataLegacy
    \/ CallSignTypedData
    \/ CallRecoverPersonalSignature
    \/ CallRecoverTypedSignatureLegacy
    \/ CallRecoverTypedSignature

SpecSign == InitSign /\ [][NextSign]_vars

----------------------------------------------------------------------------
(* Properties of the type graph.                                           *)

NoDuplicates(arr) == \A i, j \in 1..Len(arr) : arr[i] = arr[j] => i = j

RECURSIVE ReachFrom(_, _)
\* the struct types (keys of schema) reachable from those of S through fields
ReachFrom(S, schema) ==
    LET N == S \cup {t \in DOMAIN schema :
                        \E s \in S : \E i \in 1..Len(schema[s]) : schema[s][i].type = t}
    IN  IF N = S THEN S ELSE ReachFrom(N, schema)

Reach(root, schema) == ReachFrom({root}, schema)

RECURSIVE Ascending(_)
\* the names of S in ascending lexicographic order
Ascending(S) ==
    IF S = {} THEN <<>>
    ELSE LET m == CHOOSE x \in S : \A y \in S \ {x} : StrLess(x, y)
         IN  <<m>> \o Ascending(S \ {m})

\* Type(type1 name1,type2 name2,...) with the fields in declaration order
ExpectedSegment(t, schema) ==
    LET fields == schema[t]
        n == Len(fields)
    IN  IF n = 0 THEN <<t, "(", ")">>
        ELSE <<t, "(">> \o
             [j \in 1..(4 * n) |->
                CASE j % 4 = 1 -> fields[(j + 3) \div 4].type
                  [] j % 4 = 2 -> " "
                  [] j % 4 = 3 -> fields[(j + 1) \div 4].name
                  [] j % 4 = 0 -> IF j = 4 * n THEN ")" ELSE ","]

RECURSIVE ExpectedSegments(_, _)
ExpectedSegments(names, schema) ==
    IF names = <<>> THEN <<>>
    ELSE ExpectedSegment(Head(names), schema) \o ExpectedSegments(Tail(names), schema)

\* the last character of the type name is "]"
LastIsBracket(t) == CodeUnits(t) # <<>> /\ CodeUnits(t)[Len(CodeUnits(t))] = 93

\* a field of a struct reachable from root whose type is neither a primitive
\* (or an array) nor a key of the schema
UnresolvedField(root, schema) ==
    \E s \in Reach(root, schema) : \E i \in 1..Len(schema[s]) :
        LET t == schema[s][i].type
        IN  ~Defined(schema, t) /\ t \notin {"uint256", "string", "bytes"}
            /\ ~LastIsBracket(t)

\* C1 as stated: findTypeDependencies(R, S) has no duplicate and contains R,
\* for every R.
C1_Original ==
    op = "findTypeDependencies" =>
        NoDuplicates(out.v) /\ Includes(out.v, primaryType)

\* C1, amended: findTypeDependencies(R, S) has no duplicate; it contains R
\* when R is a key of S, and is empty when R is not.
C1_NoDuplicatesRootIfKey ==
    op = "findTypeDependencies" =>
        /\ NoDuplicates(out.v)
        /\ Defined(types, primaryType) => Includes(out.v, primaryType)
        /\ ~Defined(types, primaryType) => out.v = <<>>

\* a cyclic schema: three types found, and one of them refers back to the root
C1_Witness ==
    /\ op = "findTypeDependencies"
    /\ Len(out.v) = 3
    /\ \E i \in 2..3 : \E f \in 1..Len(types[out.v[i]]) :
          types[out.v[i]][f].type = primaryType

\* C2: for R a key of S, encodeType(R, S) is the segment of R followed by the
\* segments of the other struct types reachable from R in ascending
\* lexicographic order, each segment Type(type1 name1,...) with the fields in
\* declaration order, and nothing else.
C2_EncodeTypeSegments ==
    (op = "encodeType" /\ Defined(types, primaryType)) =>
        out = Ok(ExpectedSegment(primaryType, types)
                 \o ExpectedSegments(
                        Ascending(Reach(primaryType, types) \ {primaryType}), types))

\* the root is not the least name, the traversal finds the other two types in
\* descending order, and the root declares two fields
C2_Witness ==
    /\ op = "encodeType"
    /\ IsOk(out)
    /\ primaryType = "Mail"
    /\ findTypeDependencies(primaryType, types, <<>>) = <<"Mail", "Person", "Asset">>
    /\ Len(types["Mail"]) = 2

\* C5 as stated: encodeType and hashType fail with the missing-definition
\* error when the root has no entry or a reachable field has an unresolved type.
C5_Original ==
    (/\ op \in {"encodeType", "hashType"}
     /\ \/ ~Defined(types, primaryType)
        \/ UnresolvedField(primaryType, types)) =>
        out = Err(NoTypeDefinition)

\* C5, amended: encodeType, hashType, encodeData and hashStruct fail with the
\* missing-definition error exactly when the root has no entry in the schema;
\* for a root that has one, encodeType and hashType return a result whatever
\* the field types are.
C5_FailsIffRootUndefined ==
    op \in {"encodeType", "hashType", "encodeData", "hashStruct"} =>
        /\ out = Err(NoTypeDefinition) <=> ~Defined(types, primaryType)
        /\ (op \in {"encodeType", "hashType"} /\ Defined(types, primaryType)) => IsOk(out)

\* encodeType returned a string that names the unresolved type of a field
C5_Witness ==
    /\ op = "encodeType"
    /\ Defined(types, primaryType)
    /\ UnresolvedField(primaryType, types)
    /\ IsOk(out)
    /\ Includes(out.v, "Foo")

\* the root has no entry and the call threw
C5_WitnessRoot ==
    /\ op = "encodeData"
    /\ ~Defined(types, primaryType)
    /\ out = Err(NoTypeDefinition)

----------------------------------------------------------------------------
(* Properties of the struct encoding.                                      *)

\* the fields of the root the instance has a value for, in declaration order
PresentFields ==
    SelectSeq(types[primaryType], LAMBDA f : Property(data, f.name) # Undefined)

\* the word a present field is encoded to
ExpectedWord(f, v) ==
    IF f.type \in {"string", "bytes"}
    THEN [type |-> "bytes32", value |-> sha3(v)]
    ELSE IF Defined(types, f.type)
    THEN [type |-> "bytes32", value |-> sha3(encodeData(f.type, v, types).v)]
    ELSE [type |-> f.type, value |-> v]

\* C3: what encodeData(T, instance, schema) returns is the word hashType(T,
\* schema) followed by one word for each field of T the instance has a value
\* for, in declaration order, and no word for a field it has none for.
C3_SlotPerPresentField ==
    (op = "encodeData" /\ IsOk(out)) =>
        /\ Len(out.v) = 1 + Len(PresentFields)
        /\ out.v[1] = [type |-> "bytes32", value |-> hashType(primaryType, types).v]
        /\ \A j \in 1..Len(PresentFields) :
              out.v[j + 1] = ExpectedWord(PresentFields[j],
                                          Property(data, PresentFields[j].name))

\* two fields declared, the first one missing from the instance: two words
C3_Witness ==
    /\ op = "encodeData"
    /\ IsOk(out)
    /\ Len(types[primaryType]) = 2
    /\ Property(data, "a") = Undefined
    /\ Property(data, "b") # Undefined
    /\ Len(out.v) = 2

\* field i of the root has a type named as an array
ArrayField(i) ==
    /\ LastIsBracket(types[primaryType][i].type)
    /\ ~Defined(types, types[primaryType][i].type)

\* encoding field f alone, with value v, throws
FieldThrows(f, v) ==
    \/ f.type \in {"string", "bytes"} /\ IsErr(sha3Value(v))
    \/ /\ f.type \notin {"string", "bytes"}
       /\ Defined(types, f.type)
       /\ IsErr(encodeData(f.type, v, types))

\* C4 as stated: encodeData fails with the array error whenever T declares a
\* field whose type ends in "]".
C4_Original ==
    (/\ op = "encodeData"
     /\ Defined(types, primaryType)
     /\ \E i \in 1..Len(types[primaryType]) : ArrayField(i)) =>
        out = Err(ArraysUnimplemented)

\* C4, amended: encodeData fails whenever T declares a field whose type ends
\* in "]" and the instance has a value for that field, with the array error
\* unless an earlier field of T already threw.
C4_FailsWhenArrayFieldPresent ==
    (op = "encodeData" /\ Defined(types, primaryType)) =>
        \A i \in 1..Len(types[primaryType]) :
            (ArrayField(i) /\ Property(data, types[primaryType][i].name) # Undefined) =>
                /\ IsErr(out)
                /\ (\A j \in 1..(i - 1) :
                       ~FieldThrows(types[primaryType][j],
                                    Property(data, types[primaryType][j].name)))
                   => out = Err(ArraysUnimplemented)

\* the second field is the array and the first one has a value too
C4_Witness ==
    /\ op = "encodeData"
    /\ Defined(types, primaryType)
    /\ Len(types[primaryType]) = 2
    /\ ArrayField(2)
    /\ Property(data, "a") # Undefined
    /\ Property(data, "b") # Undefined
    /\ out = Err(ArraysUnimplemented)

----------------------------------------------------------------------------
(* Properties of the step-by-step findTypeDependencies.                    *)

WalkDone == op = "findTypeDependencies" /\ stack = <<>>

\* the step-by-step run returns what the function computes
WalkAgrees ==
    WalkDone => out = Ok(findTypeDependencies(primaryType, types, <<>>))

\* no type is expanded twice, and only keys of the schema are expanded
ExpandedOnce ==
    \A n \in DOMAIN expanded :
        /\ expanded[n] <= 1
        /\ expanded[n] = 1 => Defined(types, n)

\* a type that is in the accumulator is not expanded by the step
NoExpansionOfVisited ==
    \A n \in DOMAIN expanded :
        Includes(results, n) => expanded'[n] = expanded[n]

\* C10: findTypeDependencies(R, S) terminates on every schema, cyclic ones
\* included; each struct type is expanded at most once, a type already in the
\* accumulator is never expanded again, and a name that is no key of S is
\* never expanded.
C10_Terminates ==
    /\ []ExpandedOnce
    /\ [][NoExpansionOfVisited]_vars
    /\ <>WalkDone

\* the call returned on a cycle of three struct types, each expanded once
C10_Witness ==
    /\ WalkDone
    /\ \A n \in StructNames : expanded[n] = 1
    /\ \A n \in StructNames : \E i \in 1..Len(types[n]) : types[n][i].type \in StructNames \ {n}
    /\ \E i \in 1..Len(types["Person"]) : types["Person"][i].type = primaryType

----------------------------------------------------------------------------
(* Properties of the signature codec.                                      *)

\* characters from..from+63 of str are the 64 hex characters of the 32 bytes
HexOf32At(str, from, bytes) ==
    \A k \in 1..32 :
        /\ HexValue(str[from + 2 * k - 2]) = bytes[k] \div 16
        /\ HexValue(str[from + 2 * k - 1]) = bytes[k] % 16

\* C6: for v in {27, 28} and 32-byte r and s, concatSig(v, r, s) is "0x", the
\* 64 hex characters of r, the 64 of s and the hex of v, 65 bytes in all, and
\* fromRpcSig of that string is (v, r, s) again.
C6_RoundTrip ==
    sigParams.v \in {27, 28} =>
        /\ op = "concatSig" =>
              /\ Len(out.v) = 2 + 2 * 65
              /\ out.v[1] = "0" /\ out.v[2] = "x"
              /\ HexOf32At(out.v, 3, sigParams.r)
              /\ HexOf32At(out.v, 67, sigParams.s)
              /\ HexValue(out.v[131]) * 16 + HexValue(out.v[132]) = sigParams.v
        /\ op = "fromRpcSig" => out = Ok(sigParams)

\* r has leading zero bytes, s has its top bit set, and the pair came back
C6_Witness ==
    /\ op = "fromRpcSig"
    /\ sigParams.v = 28
    /\ sigParams.r[1] = 0 /\ sigParams.r[2] = 0 /\ sigParams.r[32] = 1
    /\ sigParams.s[1] = 255
    /\ out = Ok(sigParams)

----------------------------------------------------------------------------
(* Properties of the hashes.                                               *)

\* an entry of `typedData` has no name, or an empty one
SomeEntryLacksName(typedData) ==
    \E i \in 1..Len(typedData) :
        "name" \notin DOMAIN typedData[i] \/ typedData[i]["name"] = ""

\* a `bytes` entry of `typedData` has a value toBuffer does not convert
SomeBytesUnconvertible(typedData) ==
    \E i \in 1..Len(typedData) :
        typedData[i]["type"] = "bytes" /\ typedData[i]["value"].kind = "object"

\* C8 as stated: typedSignatureHashBuffer fails with "Expect argument to be
\* non-empty array" whenever the list is empty or an entry lacks a name,
\* whatever the other entries are, and never does on a non-empty list of
\* named entries.
C8_Original ==
    op = "typedSignatureHashBuffer" =>
        (out = Err(ExpectNonEmptyArray)
            <=> (Len(msgParams.data) = 0 \/ SomeEntryLacksName(msgParams.data)))

\* C8: typedSignatureHashBuffer fails with "Expect argument to be non-empty
\* array" on the empty list, and on a list with an entry that lacks a name
\* when the value of every `bytes` entry converts to a buffer; when one does
\* not, the conversion's own error comes first.  On a non-empty list of named
\* entries the error is never "Expect argument to be non-empty array".
C8_InvalidInputAfterConversion ==
    op = "typedSignatureHashBuffer" =>
        /\ Len(msgParams.data) = 0 => out = Err(ExpectNonEmptyArray)
        /\ SomeBytesUnconvertible(msgParams.data) => out = Err(LibraryError)
        /\ ~SomeBytesUnconvertible(msgParams.data) =>
              (out = Err(ExpectNonEmptyArray)
                  <=> (Len(msgParams.data) = 0 \/ SomeEntryLacksName(msgParams.data)))

\* the second of two entries lacks a name, the first is a `bytes` entry with a
\* value that converts, and the call failed with the non-empty-array error
C8_Witness ==
    /\ op = "typedSignatureHashBuffer"
    /\ Len(msgParams.data) = 2
    /\ "name" \in DOMAIN msgParams.data[1] /\ msgParams.data[1]["name"] = "n"
    /\ msgParams.data[1]["type"] = "bytes"
    /\ msgParams.data[1]["value"].kind = "scalar"
    /\ "name" \notin DOMAIN msgParams.data[2]
    /\ out = Err(ExpectNonEmptyArray)

\* the two objects have the same recognized keys with the same values
AgreeOnSchemaProperties(a, b) ==
    \A k \in SchemaProperties :
        /\ k \in DOMAIN a <=> k \in DOMAIN b
        /\ k \in DOMAIN a => a[k] = b[k]

\* Keccak256(0x1901 ++ hashStruct("EIP712Domain", domain, types)
\*                  ++ hashStruct(primaryType, message, types))
Eip712Hash(typedData) ==
    sha3(<<"1901",
           hashStruct("EIP712Domain", ObjectAt(typedData, "domain"), typedData["types"]).v,
           hashStruct(typedData["primaryType"], ObjectAt(typedData, "message"),
                      typedData["types"]).v>>)

\* C9: the keys of what sanitizeData returns are among types, primaryType,
\* domain and message; two inputs that agree on those four keys have the same
\* result from TypedDataUtils.sign, whatever other keys they carry; and a
\* hash it returns is Keccak256 of 0x1901, the hashStruct of the domain and
\* the hashStruct of the message, in that order.
C9_SignDependsOnSchemaProperties ==
    /\ op = "sanitizeData" => DOMAIN out.v \subseteq SchemaProperties
    /\ op = "TypedDataUtils.sign" =>
          /\ \A other \in TypedPayloads :
                AgreeOnSchemaProperties(msgParams.data, other) => sign(other) = out
          /\ IsOk(out) =>
                /\ {"types", "primaryType"} \subseteq DOMAIN msgParams.data
                /\ out.v = Eip712Hash(msgParams.data)

\* sign returned a hash for an input that carries a fifth key
C9_Witness ==
    /\ op = "TypedDataUtils.sign"
    /\ "extra" \in DOMAIN msgParams.data
    /\ "domain" \in DOMAIN msgParams.data
    /\ IsOk(out)

\* sanitizeData dropped the fifth key of its input
C9_WitnessSanitized ==
    /\ op = "sanitizeData"
    /\ "extra" \in DOMAIN msgParams.data
    /\ DOMAIN out.v = SchemaProperties

----------------------------------------------------------------------------
(* Properties of the signing and recovery entry points.                    *)

SignOps == {"personalSign", "signTypedDataLegacy", "signTypedData"}

RecoverOps ==
    {"recoverPersonalSignature", "recoverTypedSignatureLegacy", "recoverTypedSignature"}

\* "0x" and hex digits
IsHexString(str) ==
    /\ IsHexPrefixed(str)
    /\ \A i \in 3..Len(str) : \E d \in 1..16 : HexDigits[d] = str[i]

\* C7 as stated: for every key and every payload that has a hash, the signing
\* entry point returns a hex signature, and the matching recovery entry point
\* on the same payload and that signature returns the address of the key.
C7_Original ==
    (op \in SignOps /\ IsOk(MessageHash(msgParams.kind, msgParams.data))) =>
        /\ IsOk(out)
        /\ IsHexString(out.v)
        /\ RecoverWith(MessageHash(msgParams.kind, msgParams.data), out.v)
              = Ok(AddressOf(PublicKey(privateKey)))

\* the recovery entry points on their own: a signature over the payload's
\* hash, serialized r then s then v, leads back to the address of its signer;
\* one over another hash does not lead to a key of the model
RecoveryFindsSigner ==
    op \in RecoverOps =>
        LET msgHash == MessageHash(msgParams.kind, msgParams.data)
        IN  /\ IsErr(msgHash) => out = msgHash
            /\ IsOk(msgHash) =>
                  /\ \A key \in PrivateKeys :
                        msgParams.sig = SignatureBy(msgHash.v, key)
                            => out = Ok(AddressOf(PublicKey(key)))
                  /\ msgParams.sig = SignatureBy(ForeignHash, 1)
                        => out = Ok(AddressOf(PublicKey(0)))
                  /\ Len(msgParams.sig) < 132 => out = Err(LibraryError)

====
